---- MODULE Spec2Model ----
(***************************************************************************)
(* SeaPP, the LLVM bitcode pre-processor for verification: the model of    *)
(* main(), which parses the input module, opens the output file, adds the  *)
(* transformation stages to one llvm::PassManager in a configuration       *)
(* dependent order, runs the pass manager and keeps the output.            *)
(*                                                                         *)
(* A stage is a record [name, arg]: the pass that is constructed and the   *)
(* arguments its constructor is given.  The pipeline is the sequence of    *)
(* stages in the order of the pass_manager.add calls.                      *)
(***************************************************************************)
EXTENDS Integers, Sequences, FiniteSets, TLC

VARIABLES
  InlineAll,          \* --horn-inline-all
  BOC,                \* --boc
  IOC,                \* --ioc
  MixedSem,           \* --horn-mixed-sem
  OutputFilename,     \* -o, "" when omitted
  OutputAssembly,     \* -S
  DefaultDataLayout,  \* --default-data-layout, "" when omitted
  SROA,               \* the four --sroa-* values
  inputValid,         \* the input file holds a well formed module
  moduleDataLayout,   \* the layout string the input module declares, or ""
  outputWritable,     \* the output path can be opened for writing
  pc,                 \* position in main()
  module,             \* "null" | "parsed"
  outputOpened,       \* a tool_output_file was successfully created
  error_msg,          \* set by the tool_output_file constructor
  passes,             \* stages added to pass_manager, in order
  ran,                \* number of stages pass_manager.run has completed
  failedAt,           \* index of the stage that failed, 0 if none
  written,            \* "none" | "assembly" | "bitcode": what a writer emitted
  kept,               \* output->keep() was called
  exitCode,           \* -1 while running, else the process exit status
  aeArgv,             \* aeval: argv[1..argc-1], each a sequence of characters
  aeNum,              \* aeval: the num a getSmtFileName call is given
  aePc,               \* aeval: position in the aeval command
  aeRet,              \* aeval: index returned for aeNum, 0 for NULL
  aeS,                \* aeval: index of the S-part file, 0 for NULL
  aeT                 \* aeval: index of the T-part file, 0 for NULL

cfgVars == <<InlineAll, BOC, IOC, MixedSem, OutputFilename, OutputAssembly,
             DefaultDataLayout, SROA, inputValid, moduleDataLayout,
             outputWritable>>
runVars == <<pc, module, outputOpened, error_msg, passes, ran, failedAt,
             written, kept, exitCode>>
aeVars == <<aeArgv, aeNum, aePc, aeRet, aeS, aeT>>
vars == <<cfgVars, runVars, aeVars>>

----------------------------------------------------------------------------
(* Program constants and input domains *)

INT_MAX == 2147483647

\* <<sroa-threshold, sroa-struct, sroa-array, sroa-scalar-load>>
SROA_Default == <<INT_MAX, INT_MAX, INT_MAX, -1>>

SROA_Values == {SROA_Default, <<4, 8, 16, 2>>}

ModuleLayouts  == {"", "e-p:64:64:64", "e-p:32:32:32"}
DefaultLayouts == {"", "E-p:32:32:32", "E-p:64:64:64"}
OutputNames    == {"", "out.bc", "out.ll"}

----------------------------------------------------------------------------
(* Stages *)

Stage(n, a) == [name |-> n, arg |-> a]

Pass(n) == Stage(n, <<>>)

Names(s) == [i \in 1..Len(s) |-> s[i].name]

Positions(s, n) == {i \in 1..Len(s) : s[i].name = n}

Count(s, n) == Cardinality(Positions(s, n))

----------------------------------------------------------------------------
(* Pipeline construction: one operator per block of pass_manager.add calls *)

\* Variant: a layout stage is attached only for a layout the module
\* declares.
LayoutStagesModuleOnly(mdl, ddl) ==
  IF mdl # "" THEN << Stage("DataLayout", <<mdl>>) >> ELSE <<>>

\* add an appropriate DataLayout instance for the module
LayoutStages(mdl, ddl) ==
  IF mdl # "" THEN << Stage("DataLayout", <<mdl>>) >>
  ELSE IF ddl # "" THEN << Stage("DataLayout", <<mdl>>) >>
  ELSE <<>>

\* Variant: the module is internalized before the verifier calls are
\* promoted.
NormalizeStagesInternalizeFirst ==
  << Stage("Internalize", <<"main">>),
     Pass("PromoteVerifierCalls"),
     Pass("GlobalDCE") >>

\* promote verifier calls, internalize, global DCE
NormalizeStages ==
  << Pass("PromoteVerifierCalls"),
     Stage("Internalize", <<"main">>),
     Pass("GlobalDCE") >>

\* Variant: the cleanup is scheduled before the undef-to-nondet stage.
SsaStagesCleanupFirst ==
  << Pass("PromoteMemoryToRegister"),
     Pass("InstructionCombining"),
     Pass("CFGSimplification"),
     Pass("NondetInit") >>

\* SSA, undef to nondet, cleanup after SSA
SsaStages ==
  << Pass("PromoteMemoryToRegister"),
     Pass("NondetInit"),
     Pass("InstructionCombining"),
     Pass("CFGSimplification") >>

\* Variant: a second explicit promotion stage after the decomposition.
SroaStagesRepromote(sroa) ==
  << Stage("ScalarReplAggregates",
           <<sroa[1], TRUE, sroa[2], sroa[3], sroa[4]>>),
     Pass("PromoteMemoryToRegister"),
     Pass("NondetInit"),
     Pass("InstructionCombining"),
     Pass("CFGSimplification") >>

\* Variant: the decomposition stage is only scheduled for the default
\* thresholds.
SroaStagesThresholdGated(sroa) ==
  (IF sroa[1] = INT_MAX
   THEN << Stage("ScalarReplAggregates",
                 <<sroa[1], TRUE, sroa[2], sroa[3], sroa[4]>>) >>
   ELSE <<>>)
  \o << Pass("NondetInit"),
        Pass("InstructionCombining"),
        Pass("CFGSimplification") >>

\* break aggregates, undef to nondet, cleanup after break aggregates
SroaStages(sroa) ==
  << Stage("ScalarReplAggregates",
           <<sroa[1], TRUE, sroa[2], sroa[3], sroa[4]>>),
     Pass("NondetInit"),
     Pass("InstructionCombining"),
     Pass("CFGSimplification") >>

\* Variant: the switch lowering is left out of the block.
LowerStagesNoSwitch ==
  << Pass("DeadNondetElim"),
     Pass("DeadInstElimination"),
     Pass("RemoveUnreachableBlocks") >>

\* dead nondet elimination, switch lowering, dead code
LowerStages ==
  << Pass("DeadNondetElim"),
     Pass("LowerSwitch"),
     Pass("DeadInstElimination"),
     Pass("RemoveUnreachableBlocks") >>

InlineStages(inlineAll) ==
  IF inlineAll
  THEN << Pass("MarkInternalInline"),
          Pass("AlwaysInliner"),
          Pass("GlobalDCE") >>
  ELSE <<>>

\* Variant: the dead-instruction sweep comes ahead of the block removal.
SweepStagesDeadInstFirst ==
  << Pass("DeadInstElimination"),
     Pass("RemoveUnreachableBlocks"),
     Pass("GlobalDCE"),
     Pass("LowerGvInitializers"),
     Pass("UnifyFunctionExitNodes") >>

SweepStages ==
  << Pass("RemoveUnreachableBlocks"),
     Pass("DeadInstElimination"),
     Pass("GlobalDCE"),
     Pass("LowerGvInitializers"),
     Pass("UnifyFunctionExitNodes") >>

\* Variant: the bounds-check block is dropped when everything is inlined.
BocStagesUnlessInlined(boc, inlineAll) ==
  IF boc /\ ~inlineAll
  THEN << Pass("LowerCstExprPass"), Pass("CanAccessMemory"),
          Pass("ShadowBufferBoundsCheckFuncPars"),
          Stage("BufferBoundsCheck", <<inlineAll>>),
          Pass("NondetInit") >>
  ELSE <<>>

\* Variant: the shadow-parameter stage is added whether or not inlining
\* was requested.
BocStagesShadowAlways(boc, inlineAll) ==
  IF boc
  THEN << Pass("LowerCstExprPass"), Pass("CanAccessMemory"),
          Pass("ShadowBufferBoundsCheckFuncPars"),
          Stage("BufferBoundsCheck", <<inlineAll>>),
          Pass("NondetInit") >>
  ELSE <<>>

BocStages(boc, inlineAll) ==
  IF boc
  THEN << Pass("LowerCstExprPass"), Pass("CanAccessMemory") >>
       \o (IF ~inlineAll
           THEN << Pass("ShadowBufferBoundsCheckFuncPars") >>
           ELSE <<>>)
       \o << Stage("BufferBoundsCheck", <<inlineAll>>),
             Pass("NondetInit") >>
  ELSE <<>>

\* Variant: the overflow block relies on a lowering stage added elsewhere.
IocStagesNoLowering(ioc, inlineAll) ==
  IF ioc
  THEN << Stage("IntegerOverflowCheck", <<inlineAll>>) >>
  ELSE <<>>

\* Variant: the lowering stage is added after the instrumentation.
IocStagesLowerLate(ioc, inlineAll) ==
  IF ioc
  THEN << Stage("IntegerOverflowCheck", <<inlineAll>>),
          Pass("LowerCstExprPass") >>
  ELSE <<>>

IocStages(ioc, inlineAll) ==
  IF ioc
  THEN << Pass("LowerCstExprPass"),
          Stage("IntegerOverflowCheck", <<inlineAll>>) >>
  ELSE <<>>

\* Variant: the sweep after the instrumentation removes dead instructions
\* instead of unreachable blocks.
PostInstrStagesDeadInst == << Pass("DeadInstElimination") >>

PostInstrStages == << Pass("RemoveUnreachableBlocks") >>

\* Variant: no sweep after the mixed-semantics transformation.
MixedSemStagesNoSweep(mixedSem) ==
  IF mixedSem
  THEN << Pass("MixedSemantics") >>
  ELSE <<>>

\* Variant: without the transformation a dead-instruction sweep is
\* scheduled in its place.
MixedSemStagesElseSweep(mixedSem) ==
  IF mixedSem
  THEN << Pass("MixedSemantics"), Pass("RemoveUnreachableBlocks") >>
  ELSE << Pass("DeadInstElimination") >>

MixedSemStages(mixedSem) ==
  IF mixedSem
  THEN << Pass("MixedSemantics"), Pass("RemoveUnreachableBlocks") >>
  ELSE <<>>

\* Variant: one more sweep is scheduled after the Verifier.
VerifierStagesThenSweep ==
  << Pass("Verifier"), Pass("RemoveUnreachableBlocks") >>

VerifierStages == << Pass("Verifier") >>

\* Variant: -S is not consulted, the output is always bitcode.
WriterStagesAlwaysBitcode(outputFilename, outputAssembly) ==
  IF outputFilename # ""
  THEN << Stage("BitcodeWriter", <<outputFilename>>) >>
  ELSE <<>>

WriterStages(outputFilename, outputAssembly) ==
  IF outputFilename # ""
  THEN IF outputAssembly
       THEN << Stage("PrintModule", <<outputFilename>>) >>
       ELSE << Stage("BitcodeWriter", <<outputFilename>>) >>
  ELSE <<>>

\* The whole sequence of pass_manager.add calls, as a function of the
\* resolved configuration.
Pipeline(mdl, ddl, sroa, inlineAll, boc, ioc, mixedSem, outName, outAsm) ==
  LayoutStages(mdl, ddl) \o NormalizeStages \o SsaStages \o SroaStages(sroa)
  \o LowerStages \o InlineStages(inlineAll) \o SweepStages
  \o BocStages(boc, inlineAll) \o IocStages(ioc, inlineAll)
  \o PostInstrStages \o MixedSemStages(mixedSem) \o VerifierStages
  \o WriterStages(outName, outAsm)

----------------------------------------------------------------------------
(* main() *)

\* The aeval command is a separate executable; it is not running.
AeIdle ==
  /\ aeArgv = <<>>
  /\ aeNum = 1
  /\ aePc = "idle"
  /\ aeRet = -1
  /\ aeS = -1
  /\ aeT = -1

Init ==
  /\ InlineAll \in BOOLEAN
  /\ BOC \in BOOLEAN
  /\ IOC \in BOOLEAN
  /\ MixedSem \in BOOLEAN
  /\ OutputFilename \in OutputNames
  /\ OutputAssembly \in BOOLEAN
  /\ DefaultDataLayout \in DefaultLayouts
  /\ SROA \in SROA_Values
  /\ inputValid \in BOOLEAN
  /\ moduleDataLayout \in (IF inputValid THEN ModuleLayouts ELSE {""})
  /\ outputWritable \in BOOLEAN
  /\ pc = "parse"
  /\ module = "null"
  /\ outputOpened = FALSE
  /\ error_msg = ""
  /\ passes = <<>>
  /\ ran = 0
  /\ failedAt = 0
  /\ written = "none"
  /\ kept = FALSE
  /\ exitCode = -1
  /\ AeIdle

\* Variant: the parse error is reported but main() does not return.
ParseInputNoReturn ==
  /\ pc = "parse"
  /\ module' = (IF inputValid THEN "parsed" ELSE "null")
  /\ pc' = "open"
  /\ exitCode' = exitCode
  /\ UNCHANGED <<aeVars, cfgVars, outputOpened, error_msg, passes, ran, failedAt,
                 written, kept>>

\* module.reset(ParseIRFile(...)); if (module.get() == 0) return 3;
ParseInput ==
  /\ pc = "parse"
  /\ IF inputValid
     THEN /\ module' = "parsed"
          /\ pc' = "open"
          /\ exitCode' = exitCode
     ELSE /\ module' = "null"
          /\ pc' = "exit"
          /\ exitCode' = 3
  /\ UNCHANGED <<aeVars, cfgVars, outputOpened, error_msg, passes, ran, failedAt,
                 written, kept>>

\* if (!OutputFilename.empty()) output.reset(new tool_output_file(...));
\* if (!error_msg.empty()) return 3;
OpenOutput ==
  /\ pc = "open"
  /\ IF OutputFilename = ""
     THEN /\ UNCHANGED <<outputOpened, error_msg, exitCode>>
          /\ pc' = "layout"
     ELSE IF outputWritable
     THEN /\ outputOpened' = TRUE
          /\ UNCHANGED <<error_msg, exitCode>>
          /\ pc' = "layout"
     ELSE /\ outputOpened' = FALSE
          /\ error_msg' = "cannot open"
          /\ exitCode' = 3
          /\ pc' = "exit"
  /\ UNCHANGED <<aeVars, cfgVars, module, passes, ran, failedAt, written, kept>>

\* A block of pass_manager.add calls: append the block's stages.
Add(from, stages, to) ==
  /\ pc = from
  /\ passes' = passes \o stages
  /\ pc' = to
  /\ UNCHANGED <<aeVars, cfgVars, module, outputOpened, error_msg, ran, failedAt,
                 written, kept, exitCode>>

AddLayout    == Add("layout", LayoutStages(moduleDataLayout, DefaultDataLayout),
                    "normalize")
AddNormalize == Add("normalize", NormalizeStages, "ssa")
AddSsa       == Add("ssa", SsaStages, "sroa")
AddSroa      == Add("sroa", SroaStages(SROA), "lower")
AddLower     == Add("lower", LowerStages, "inline")
AddInline    == Add("inline", InlineStages(InlineAll), "sweep")
AddSweep     == Add("sweep", SweepStages, "boc")
AddBoc       == Add("boc", BocStages(BOC, InlineAll), "ioc")
AddIoc       == Add("ioc", IocStages(IOC, InlineAll), "postinstr")
AddPostInstr == Add("postinstr", PostInstrStages, "mixed")
AddMixedSem  == Add("mixed", MixedSemStages(MixedSem), "verifier")
\* Variant: the writer is scheduled ahead of the Verifier.
AddWriterBeforeVerifier ==
  Add("verifier",
      WriterStages(OutputFilename, OutputAssembly) \o VerifierStages,
      "writer")

AddVerifier  == Add("verifier", VerifierStages, "writer")
AddWriter    == Add("writer", WriterStages(OutputFilename, OutputAssembly),
                    "run")

\* What a stage that completes leaves in the output stream.
Emits(stage, before) ==
  IF stage.name = "PrintModule" THEN "assembly"
  ELSE IF stage.name = "BitcodeWriter" THEN "bitcode"
  ELSE before

\* pass_manager.run: the next stage completes.
StageCompletes ==
  /\ pc = "run"
  /\ ran < Len(passes)
  /\ ran' = ran + 1
  /\ written' = Emits(passes[ran + 1], written)
  /\ pc' = IF ran + 1 = Len(passes) THEN "keep" ELSE "run"
  /\ UNCHANGED <<aeVars, cfgVars, module, outputOpened, error_msg, passes, failedAt,
                 kept, exitCode>>

FailureCodes == {1, 134}

\* pass_manager.run: the next stage cannot complete; the process is
\* terminated inside run() and main() never resumes.
StageFails ==
  /\ pc = "run"
  /\ ran < Len(passes)
  /\ failedAt' = ran + 1
  /\ pc' = "aborted"
  /\ \E c \in FailureCodes : exitCode' = c
  /\ UNCHANGED <<aeVars, cfgVars, module, outputOpened, error_msg, passes, ran,
                 written, kept>>

\* if (!OutputFilename.empty()) output->keep(); return 0;
KeepAndReturn ==
  /\ pc = "keep"
  /\ kept' = (OutputFilename # "")
  /\ exitCode' = 0
  /\ pc' = "exit"
  /\ UNCHANGED <<aeVars, cfgVars, module, outputOpened, error_msg, passes, ran,
                 failedAt, written>>

Next ==
  \/ ParseInput
  \/ OpenOutput
  \/ AddLayout
  \/ AddNormalize
  \/ AddSsa
  \/ AddSroa
  \/ AddLower
  \/ AddInline
  \/ AddSweep
  \/ AddBoc
  \/ AddIoc
  \/ AddPostInstr
  \/ AddMixedSem
  \/ AddVerifier
  \/ AddWriter
  \/ StageCompletes
  \/ StageFails
  \/ KeepAndReturn

Spec == Init /\ [][Next]_vars

TypeOK ==
  /\ pc \in {"parse", "open", "layout", "normalize", "ssa", "sroa", "lower",
             "inline", "sweep", "boc", "ioc", "postinstr", "mixed",
             "verifier", "writer", "run", "keep", "exit", "aborted"}
  /\ exitCode \in {-1, 0, 3} \cup FailureCodes
  /\ ran \in 0..Len(passes)
  /\ failedAt \in 0..Len(passes)

----------------------------------------------------------------------------
(* The aeval command: finding its two .smt2 arguments.  A C string is a   *)
(* sequence of one-character strings; argv is the sequence of the          *)
(* arguments after the program name, so argv[i] is the code's argv[i] and  *)
(* argc = Len(argv) + 1.  A returned char* is the index of the argument    *)
(* it points to.                                                           *)

MaxArgs == 4
MaxNum == 3

NULL == 0

DotSmt2 == << ".", "s", "m", "t", "2" >>

ArgPool ==
  { << "-", "-", "s", "k", "o", "l" >>,
    << "a" >> \o DotSmt2,
    << "b" >> \o DotSmt2,
    DotSmt2,
    << "s", "m", "t", "2" >>,
    << "a", ".", "s", "m", "t" >>,
    DotSmt2 \o << "x" >> }

ArgVectors == UNION { [1..n -> ArgPool] : n \in 0..MaxArgs }

\* strlen
strlen(str) == Len(str)

\* strcmp(str + off, lit) == 0
StrEqualFrom(str, off, lit) == SubSeq(str, off + 1, Len(str)) = lit

RECURSIVE ScanSmt(_, _, _, _, _)
\* The for loop of getSmtFileName from index i on, with counter num1.
ScanSmt(i, num1, num, argc, argv) ==
  IF ~(i < argc) THEN NULL
  ELSE LET len == strlen(argv[i])
       IN  IF len >= 5 /\ StrEqualFrom(argv[i], len - 5, DotSmt2)
           THEN IF num1 = num THEN i
                ELSE ScanSmt(i + 1, num1 + 1, num, argc, argv)
           ELSE ScanSmt(i + 1, num1, num, argc, argv)

\* Variant: the counter of matches starts at zero.
getSmtFileNameFromZero(num, argc, argv) == ScanSmt(1, 0, num, argc, argv)

getSmtFileName(num, argc, argv) == ScanSmt(1, 1, num, argc, argv)

\* The main() variables while only aeval is looked at.
MainIdle ==
  /\ InlineAll = FALSE
  /\ BOC = FALSE
  /\ IOC = FALSE
  /\ MixedSem = FALSE
  /\ OutputFilename = ""
  /\ OutputAssembly = FALSE
  /\ DefaultDataLayout = ""
  /\ SROA = SROA_Default
  /\ inputValid = FALSE
  /\ moduleDataLayout = ""
  /\ outputWritable = FALSE
  /\ pc = "idle"
  /\ module = "null"
  /\ outputOpened = FALSE
  /\ error_msg = ""
  /\ passes = <<>>
  /\ ran = 0
  /\ failedAt = 0
  /\ written = "none"
  /\ kept = FALSE
  /\ exitCode = -1

InitAe ==
  /\ MainIdle
  /\ aeArgv \in ArgVectors
  /\ aeNum \in 1..MaxNum
  /\ aePc = "call"
  /\ aeRet = -1
  /\ aeS = -1
  /\ aeT = -1

\* One call getSmtFileName(num, argc, argv).
CallGetSmtFileName ==
  /\ aePc = "call"
  /\ aeRet' = getSmtFileName(aeNum, Len(aeArgv) + 1, aeArgv)
  /\ aePc' = "s"
  /\ UNCHANGED <<cfgVars, runVars, aeArgv, aeNum, aeS, aeT>>

\* Expr s = z3_from_smtlib_file (z3, getSmtFileName(1, argc, argv));
AeMainS ==
  /\ aePc = "s"
  /\ aeS' = getSmtFileName(1, Len(aeArgv) + 1, aeArgv)
  /\ aePc' = "t"
  /\ UNCHANGED <<cfgVars, runVars, aeArgv, aeNum, aeRet, aeT>>

\* Expr t = z3_from_smtlib_file (z3, getSmtFileName(2, argc, argv));
AeMainT ==
  /\ aePc = "t"
  /\ aeT' = getSmtFileName(2, Len(aeArgv) + 1, aeArgv)
  /\ aePc' = "done"
  /\ UNCHANGED <<cfgVars, runVars, aeArgv, aeNum, aeRet, aeS>>

NextAe ==
  \/ CallGetSmtFileName
  \/ AeMainS
  \/ AeMainT

SpecAe == InitAe /\ [][NextAe]_vars

----------------------------------------------------------------------------
(* Properties of the constructed sequence and of the run *)

\* Every pass_manager.add call of main() has been made.
Built ==
  \/ pc \in {"run", "keep", "aborted"}
  \/ pc = "exit" /\ exitCode = 0

Has(n) == Positions(passes, n) # {}

WriterNames == {"PrintModule", "BitcodeWriter"}

InstrNames == {"BufferBoundsCheck", "IntegerOverflowCheck"}

UndefNames == {"PromoteMemoryToRegister", "ScalarReplAggregates",
               "BufferBoundsCheck"}

B2N(b) == IF b THEN 1 ELSE 0

\* C1 (as stated): in every configuration the Verifier is the last stage
\* added to the pass manager; no stage is added after createVerifierPass.
C1_VerifierLastAdded ==
  \A i \in 1..Len(passes) :
    passes[i].name = "Verifier" => i = Len(passes)

\* C1 (amended): the Verifier is the last transformation stage; the only
\* stage ever added after it is the single output writer, and only when -o
\* is given.  Once construction is complete the Verifier is present once.
C1_VerifierLastBeforeWriter ==
  /\ \A i \in 1..Len(passes) :
       passes[i].name = "Verifier" =>
         \A j \in (i + 1)..Len(passes) :
           /\ j = i + 1
           /\ passes[j].name \in WriterNames
           /\ OutputFilename # ""
  /\ Built =>
       /\ Count(passes, "Verifier") = 1
       /\ OutputFilename = "" => passes[Len(passes)].name = "Verifier"

C1_Witness ==
  /\ Built
  /\ OutputFilename # ""
  /\ Len(passes) >= 2
  /\ passes[Len(passes) - 1].name = "Verifier"
  /\ passes[Len(passes)].name \in WriterNames

\* C2 (as stated): with both --boc and --ioc the sequence contains the
\* constant-expression-lowering stage exactly once, and in every
\* configuration at most once.
C2_LoweringShared ==
  /\ Count(passes, "LowerCstExprPass") <= 1
  /\ (Built /\ BOC /\ IOC) => Count(passes, "LowerCstExprPass") = 1

\* C2 (amended): the sequence contains one lowering stage per requested
\* instrumentation: two when both --boc and --ioc are set (not shared),
\* one when exactly one is set, none otherwise; never more than two.
C2_LoweringPerInstrumentation ==
  /\ Count(passes, "LowerCstExprPass") <= 2
  /\ Built => Count(passes, "LowerCstExprPass") = B2N(BOC) + B2N(IOC)

C2_Witness ==
  /\ Built
  /\ BOC
  /\ IOC
  /\ Count(passes, "LowerCstExprPass") = 2

\* C3: if a stage fails during the run, or the Verifier rejects the module,
\* the run ends with a non-zero exit code and no output is emitted or kept;
\* exit code 0 and a kept output occur only when every stage, the Verifier
\* included, has completed.
C3_FailureIsFatal ==
  /\ failedAt # 0 =>
       /\ pc = "aborted"
       /\ exitCode \notin {-1, 0}
       /\ ~kept
       /\ written = "none"
  /\ (exitCode = 0 \/ kept) =>
       /\ failedAt = 0
       /\ ran = Len(passes)
       /\ \E i \in 1..ran : passes[i].name = "Verifier"
  /\ kept => exitCode = 0

C3_Witness ==
  /\ pc = "aborted"
  /\ outputOpened
  /\ failedAt # 0
  /\ passes[failedAt].name = "Verifier"
  /\ exitCode # 0

\* C4: when the module declares no data layout and a non-empty
\* --default-data-layout is given, the layout stage is constructed from the
\* default layout string; when the module declares a layout, the module's
\* layout is used.
C4_DefaultLayoutUsed ==
  \A i \in 1..Len(passes) :
    passes[i].name = "DataLayout" =>
      passes[i].arg = << IF moduleDataLayout # ""
                         THEN moduleDataLayout
                         ELSE DefaultDataLayout >>

\* C5 (as stated): the constructed sequence contains an SSA promotion
\* stage, later the aggregate decomposition, and later a second SSA
\* promotion stage.
C5_PromotionTwice ==
  Built =>
    \E i, j, k \in 1..Len(passes) :
      /\ i < j
      /\ j < k
      /\ passes[i].name = "PromoteMemoryToRegister"
      /\ passes[j].name = "ScalarReplAggregates"
      /\ passes[k].name = "PromoteMemoryToRegister"

\* C5 (amended): the constructed sequence contains exactly one SSA
\* promotion stage and exactly one aggregate-decomposition stage, the
\* promotion first; no SSA promotion stage follows the decomposition.
C5_PromotionOnceBeforeSroa ==
  /\ \A j \in Positions(passes, "ScalarReplAggregates") :
       \A k \in Positions(passes, "PromoteMemoryToRegister") : k < j
  /\ Built =>
       /\ Count(passes, "PromoteMemoryToRegister") = 1
       /\ Count(passes, "ScalarReplAggregates") = 1

C5_Witness ==
  /\ Built
  /\ \E i, j \in 1..Len(passes) :
       /\ i < j
       /\ passes[i].name = "PromoteMemoryToRegister"
       /\ passes[j].name = "ScalarReplAggregates"

\* C6: if parsing the input fails the run exits with code 3, no output
\* file is opened or created and no stage is constructed or run, in every
\* configuration.
C6_ParseFailure ==
  ~inputValid =>
    /\ pc \in {"parse", "exit"}
    /\ pc = "exit" => exitCode = 3
    /\ module = "null"
    /\ ~outputOpened
    /\ passes = <<>>
    /\ ran = 0
    /\ written = "none"
    /\ ~kept

C6_Witness ==
  /\ ~inputValid
  /\ pc = "exit"
  /\ exitCode = 3
  /\ OutputFilename # ""
  /\ outputWritable

\* C7: BufferBoundsCheck is in the constructed sequence iff --boc is set
\* and IntegerOverflowCheck iff --ioc is set, independently of the other
\* options; with both unset there is no instrumentation stage and no
\* constant-expression-lowering stage.
C7_InstrumentationIffFlag ==
  /\ Has("BufferBoundsCheck") => BOC
  /\ Has("IntegerOverflowCheck") => IOC
  /\ Built =>
       /\ Count(passes, "BufferBoundsCheck") = B2N(BOC)
       /\ Count(passes, "IntegerOverflowCheck") = B2N(IOC)
       /\ (~BOC /\ ~IOC) => ~Has("LowerCstExprPass")

C7_Witness ==
  /\ Built
  /\ BOC
  /\ ~IOC
  /\ InlineAll
  /\ Has("BufferBoundsCheck")
  /\ ~Has("IntegerOverflowCheck")

\* C8: every instrumentation stage is preceded by an earlier
\* constant-expression-lowering stage.
C8_LoweringBeforeInstrumentation ==
  \A i \in 1..Len(passes) :
    passes[i].name \in InstrNames =>
      \E j \in 1..(i - 1) : passes[j].name = "LowerCstExprPass"

C8_Witness ==
  /\ Built
  /\ ~BOC
  /\ IOC
  /\ Has("IntegerOverflowCheck")

\* C9: ShadowBufferBoundsCheckFuncPars is in the constructed sequence iff
\* --boc is set and --horn-inline-all is not; when present it comes after
\* a constant-expression-lowering stage and before BufferBoundsCheck.
C9_ShadowIffBocNotInlined ==
  /\ \A i \in 1..Len(passes) :
       passes[i].name = "ShadowBufferBoundsCheckFuncPars" =>
         /\ BOC
         /\ ~InlineAll
         /\ \E j \in 1..(i - 1) : passes[j].name = "LowerCstExprPass"
         /\ \E k \in (i + 1)..Len(passes) :
              passes[k].name = "BufferBoundsCheck"
  /\ Built =>
       Count(passes, "ShadowBufferBoundsCheckFuncPars")
         = B2N(BOC /\ ~InlineAll)

C9_Witness ==
  /\ Built
  /\ BOC
  /\ ~InlineAll
  /\ Has("ShadowBufferBoundsCheckFuncPars")

\* C10: each stage that can introduce undefined values
\* (PromoteMemoryToRegister, ScalarReplAggregates, BufferBoundsCheck) is
\* immediately followed by NondetInit; NondetInit occurs exactly twice
\* without --boc and exactly three times with it.
C10_NondetInitFollows ==
  /\ \A i \in 1..Len(passes) :
       passes[i].name \in UndefNames =>
         /\ i < Len(passes)
         /\ passes[i + 1].name = "NondetInit"
  /\ Built => Count(passes, "NondetInit") = 2 + B2N(BOC)

C10_Witness ==
  /\ Built
  /\ BOC
  /\ Count(passes, "NondetInit") = 3

\* i is past every promotion/decomposition stage and ahead of every
\* instrumentation stage of the sequence.
BetweenPromotionAndInstr(i) ==
  /\ \A j \in Positions(passes, "PromoteMemoryToRegister") : j < i
  /\ \A j \in Positions(passes, "ScalarReplAggregates") : j < i
  /\ \A j \in Positions(passes, "BufferBoundsCheck") : i < j
  /\ \A j \in Positions(passes, "IntegerOverflowCheck") : i < j

\* C11: a switch-lowering stage, a dead-instruction-elimination stage and
\* an unreachable-block-removal stage all appear after the last
\* promotion/decomposition stage and before the first instrumentation
\* stage; no switch-lowering stage appears after an instrumentation stage.
C11_LoweringBetweenPromotionAndInstr ==
  /\ Built =>
       \A n \in {"LowerSwitch", "DeadInstElimination",
                 "RemoveUnreachableBlocks"} :
         \E i \in Positions(passes, n) : BetweenPromotionAndInstr(i)
  /\ \A j \in Positions(passes, "LowerSwitch") :
       \A i \in Positions(passes, "BufferBoundsCheck")
                  \cup Positions(passes, "IntegerOverflowCheck") : j < i

C11_Witness ==
  /\ Built
  /\ BOC
  /\ IOC
  /\ \E i \in Positions(passes, "LowerSwitch") : BetweenPromotionAndInstr(i)

InlineRun == << "MarkInternalInline", "AlwaysInliner", "GlobalDCE",
                "RemoveUnreachableBlocks" >>

\* The four stages of InlineRun occupy positions i .. i+3.
InlineRunAt(i) ==
  /\ i + 3 <= Len(passes)
  /\ \A k \in 1..4 : passes[i + k - 1].name = InlineRun[k]

\* C12: with --horn-inline-all the sequence contains, consecutively and in
\* this order, MarkInternalInline, AlwaysInliner, GlobalDCE,
\* RemoveUnreachableBlocks, all before any instrumentation stage; without
\* it neither MarkInternalInline nor AlwaysInliner appears.
C12_InlineBlock ==
  /\ (Built /\ InlineAll) =>
       \E i \in Positions(passes, "MarkInternalInline") :
         /\ InlineRunAt(i)
         /\ \A j \in Positions(passes, "BufferBoundsCheck")
                       \cup Positions(passes, "IntegerOverflowCheck") :
              i + 3 < j
  /\ ~InlineAll =>
       /\ ~Has("MarkInternalInline")
       /\ ~Has("AlwaysInliner")

C12_Witness ==
  /\ Built
  /\ InlineAll
  /\ BOC
  /\ \E i \in 1..Len(passes) : InlineRunAt(i)

InstrPositions == {i \in 1..Len(passes) : passes[i].name \in InstrNames}

\* C13 (as stated): for each instrumentation stage a RemoveUnreachableBlocks
\* stage appears after it and before any later instrumentation stage or
\* the mixed-semantics stage; with both --boc and --ioc a removal stage
\* runs between BufferBoundsCheck and IntegerOverflowCheck.
C13_SweepAfterEachInstr ==
  Built =>
    \A i \in 1..Len(passes) :
      passes[i].name \in InstrNames =>
        \E r \in (i + 1)..Len(passes) :
          /\ passes[r].name = "RemoveUnreachableBlocks"
          /\ \A j \in (i + 1)..Len(passes) :
               passes[j].name \in InstrNames \cup {"MixedSemantics"}
                 => r < j

\* C13 (amended): one removal stage serves all instrumentation: for each
\* instrumentation stage a RemoveUnreachableBlocks stage appears after it
\* and before the mixed-semantics stage and the Verifier, and no removal
\* stage lies between two instrumentation stages.
C13_SweepAfterAllInstr ==
  LET instr == InstrPositions
      sweep == Positions(passes, "RemoveUnreachableBlocks")
      final == Positions(passes, "MixedSemantics")
                 \cup Positions(passes, "Verifier")
  IN  /\ Built =>
           \A i \in instr :
             \E r \in sweep :
               /\ i < r
               /\ \A j \in final : r < j
      /\ \A r \in sweep :
           \/ \A i \in instr : r < i
           \/ \A i \in instr : i < r

C13_Witness ==
  /\ Built
  /\ BOC
  /\ IOC
  /\ MixedSem
  /\ \E i \in Positions(passes, "BufferBoundsCheck") :
       \E j \in Positions(passes, "IntegerOverflowCheck") :
         \E r \in Positions(passes, "RemoveUnreachableBlocks") :
           i < j /\ j < r

\* C14: MixedSemantics is in the constructed sequence iff --horn-mixed-sem
\* is set; when present it comes after every instrumentation stage, is
\* immediately followed by RemoveUnreachableBlocks, which is immediately
\* followed by the Verifier.
C14_MixedSemBlock ==
  /\ Has("MixedSemantics") => MixedSem
  /\ Built =>
       /\ Count(passes, "MixedSemantics") = B2N(MixedSem)
       /\ \A m \in Positions(passes, "MixedSemantics") :
            /\ \A i \in InstrPositions : i < m
            /\ m + 2 <= Len(passes)
            /\ passes[m + 1].name = "RemoveUnreachableBlocks"
            /\ passes[m + 2].name = "Verifier"

C14_Witness ==
  /\ Built
  /\ MixedSem
  /\ BOC
  /\ IOC
  /\ Has("MixedSemantics")

\* C15: whenever a data-layout stage is part of the sequence it is the
\* first stage, ahead of PromoteVerifierCalls and every other stage; it is
\* part of the sequence exactly when the module declares a layout or a
\* non-empty default layout is provided.
C15_LayoutFirst ==
  /\ \A i \in Positions(passes, "DataLayout") :
       /\ i = 1
       /\ moduleDataLayout # "" \/ DefaultDataLayout # ""
  /\ Built =>
       /\ Has("DataLayout")
            <=> (moduleDataLayout # "" \/ DefaultDataLayout # "")
       /\ \A v \in Positions(passes, "PromoteVerifierCalls") :
            \A i \in Positions(passes, "DataLayout") : i < v

C15_Witness ==
  /\ Built
  /\ moduleDataLayout = ""
  /\ DefaultDataLayout # ""
  /\ passes[1].name = "DataLayout"
  /\ passes[2].name = "PromoteVerifierCalls"

First(n) == CHOOSE i \in Positions(passes, n) :
              \A j \in Positions(passes, n) : i <= j

\* C16: PromoteVerifierCalls precedes the internalization, which precedes
\* the first GlobalDCE, which precedes the first SSA promotion; and
\* PromoteVerifierCalls precedes MarkInternalInline and AlwaysInliner
\* whenever those are present.
C16_NormalizeOrder ==
  /\ Built =>
       /\ Count(passes, "PromoteVerifierCalls") = 1
       /\ Count(passes, "Internalize") = 1
       /\ Has("GlobalDCE")
       /\ Has("PromoteMemoryToRegister")
       /\ First("PromoteVerifierCalls") < First("Internalize")
       /\ First("Internalize") < First("GlobalDCE")
       /\ First("GlobalDCE") < First("PromoteMemoryToRegister")
  /\ \A i \in Positions(passes, "MarkInternalInline")
                \cup Positions(passes, "AlwaysInliner") :
       \E v \in Positions(passes, "PromoteVerifierCalls") : v < i

C16_Witness ==
  /\ Built
  /\ InlineAll
  /\ Has("MarkInternalInline")
  /\ Has("AlwaysInliner")
  /\ First("PromoteVerifierCalls") < First("MarkInternalInline")

SameStage(a, b) == a.name = b.name /\ a.arg = b.arg

SameSeq(s, t) ==
  /\ Len(s) = Len(t)
  /\ \A i \in 1..Len(s) : SameStage(s[i], t[i])

\* A string option reduced to whether it was given.
Present(str) == IF str # "" THEN "given" ELSE ""

\* C17: construction is deterministic: the stage sequence is a function of
\* the resolved configuration alone (the same configuration always gives
\* the identical sequence), and which stages it consists of depends only
\* on inlineAll, boc, ioc, mixedSemantics, -o present, -S, module declares
\* a layout, default layout present; not on the SROA thresholds, which are
\* only forwarded as stage parameters.
C17_Deterministic ==
  Built =>
    /\ SameSeq(passes,
               Pipeline(moduleDataLayout, DefaultDataLayout, SROA,
                        InlineAll, BOC, IOC, MixedSem,
                        OutputFilename, OutputAssembly))
    /\ Names(passes)
         = Names(Pipeline(Present(moduleDataLayout),
                          Present(DefaultDataLayout), SROA_Default,
                          InlineAll, BOC, IOC, MixedSem,
                          Present(OutputFilename), OutputAssembly))

C17_Witness ==
  /\ Built
  /\ SROA # SROA_Default
  /\ moduleDataLayout = "e-p:32:32:32"
  /\ OutputFilename = "out.ll"
  /\ \E i \in Positions(passes, "ScalarReplAggregates") :
       passes[i].arg[1] # INT_MAX

WriterPositions == Positions(passes, "PrintModule")
                     \cup Positions(passes, "BitcodeWriter")

\* C18: without -o no output file is opened, no writer stage is added and
\* nothing is kept, yet the whole sequence, Verifier included, is run; with
\* -o exactly one writer stage is added, textual with -S and binary
\* otherwise; the output is kept only when -o was given.
C18_OutputOnlyWithO ==
  /\ OutputFilename = "" =>
       /\ ~outputOpened
       /\ WriterPositions = {}
       /\ written = "none"
       /\ ~kept
       /\ Built => Has("Verifier")
       /\ (pc = "exit" /\ exitCode = 0) =>
            /\ ran = Len(passes)
            /\ failedAt = 0
  /\ (OutputFilename # "" /\ Built) =>
       /\ Cardinality(WriterPositions) = 1
       /\ \A w \in WriterPositions :
            /\ passes[w].name = (IF OutputAssembly THEN "PrintModule"
                                                   ELSE "BitcodeWriter")
            /\ passes[w].arg = <<OutputFilename>>
  /\ kept => (OutputFilename # "" /\ outputOpened)

C18_Witness ==
  /\ OutputFilename = ""
  /\ pc = "exit"
  /\ exitCode = 0
  /\ Has("Verifier")
  /\ ran = Len(passes)
  /\ ~kept

\* The run with -o and -S: the textual writer ran and the file is kept.
C18_WitnessKept ==
  /\ OutputFilename # ""
  /\ OutputAssembly
  /\ pc = "exit"
  /\ kept
  /\ written = "assembly"

RECURSIVE SubseqFrom(_, _, _, _)
\* s[i..] can be obtained from t[j..] by deleting stages.
SubseqFrom(s, i, t, j) ==
  IF i > Len(s) THEN TRUE
  ELSE IF j > Len(t) THEN FALSE
  ELSE IF SameStage(s[i], t[j]) THEN SubseqFrom(s, i + 1, t, j + 1)
  ELSE SubseqFrom(s, i, t, j + 1)

IsSubseq(s, t) == SubseqFrom(s, 1, t, 1)

RECURSIVE NameSubseqFrom(_, _, _, _)
\* The same, looking at the stage names only.
NameSubseqFrom(s, i, t, j) ==
  IF i > Len(s) THEN TRUE
  ELSE IF j > Len(t) THEN FALSE
  ELSE IF s[i].name = t[j].name THEN NameSubseqFrom(s, i + 1, t, j + 1)
  ELSE NameSubseqFrom(s, i, t, j + 1)

IsNameSubseq(s, t) == NameSubseqFrom(s, 1, t, 1)

\* The sequence for the current options with the four flags replaced.
PipelineWith(inlineAll, boc, ioc, mixedSem) ==
  Pipeline(moduleDataLayout, DefaultDataLayout, SROA, inlineAll, boc, ioc,
           mixedSem, OutputFilename, OutputAssembly)

\* The last pass_manager.add call has just been made; passes does not
\* change from here on.
Constructed == pc = "run" /\ ran = 0

\* The constructed sequence and the one with a flag toggled: the one with
\* the flag off is a subsequence of the one with the flag on.
OnlyInserts(flag, toggled) ==
  IF flag THEN IsSubseq(toggled, passes) ELSE IsSubseq(passes, toggled)

\* C19: enabling boc, ioc or mixedSemantics only inserts stages: of two
\* configurations differing in one of these flags, the sequence with the
\* flag off is the sequence with the flag on with some stages deleted,
\* order otherwise unchanged.  For inlineAll this fails when boc is set:
\* enabling it removes the shadow-parameter stage.
C19_FlagsOnlyInsert ==
  Constructed =>
    /\ OnlyInserts(BOC, PipelineWith(InlineAll, ~BOC, IOC, MixedSem))
    /\ OnlyInserts(IOC, PipelineWith(InlineAll, BOC, ~IOC, MixedSem))
    /\ OnlyInserts(MixedSem, PipelineWith(InlineAll, BOC, IOC, ~MixedSem))
    /\ BOC =>
         LET toggled == PipelineWith(~InlineAll, BOC, IOC, MixedSem)
         IN  IF InlineAll
             THEN ~IsNameSubseq(toggled, passes)
             ELSE ~IsNameSubseq(passes, toggled)

C19_Witness ==
  /\ Constructed
  /\ BOC
  /\ IOC
  /\ MixedSem
  /\ ~InlineAll
  /\ Len(PipelineWith(InlineAll, FALSE, IOC, MixedSem)) < Len(passes)
  /\ IsSubseq(PipelineWith(InlineAll, FALSE, IOC, MixedSem), passes)

\* An argument of length at least 5 that ends in ".smt2".
EndsInSmt2(str) ==
  /\ Len(str) >= 5
  /\ \A k \in 1..5 : str[Len(str) - 5 + k] = DotSmt2[k]

SmtPositions == {i \in 1..Len(aeArgv) : EndsInSmt2(aeArgv[i])}

\* The position of the n-th ".smt2" argument in command-line order, NULL
\* if there are fewer than n.
NthSmt(n) ==
  LET at == {i \in SmtPositions :
               Cardinality({j \in SmtPositions : j <= i}) = n}
  IN  IF at = {} THEN NULL ELSE CHOOSE i \in at : TRUE

\* C20: getSmtFileName(num, argc, argv) returns the num-th argument, in
\* command-line order, of length at least 5 ending in ".smt2", wherever
\* flags are interleaved, and NULL when there are fewer than num; so the
\* S-part is the first and the T-part the second such argument, and a
\* third or later one is ignored.
C20_NthSmtArgument ==
  /\ aePc \in {"s", "t", "done"} =>
       /\ aeRet = NthSmt(aeNum)
       /\ aeRet = NULL <=> Cardinality(SmtPositions) < aeNum
  /\ aePc \in {"t", "done"} => aeS = NthSmt(1)
  /\ aePc = "done" => aeT = NthSmt(2)

C20_Witness ==
  /\ aePc = "done"
  /\ SmtPositions = {2, 3, 4}
  /\ aeArgv[1] = << "-", "-", "s", "k", "o", "l" >>
  /\ aeArgv[3] = DotSmt2
  /\ aeS = 2
  /\ aeT = 3
  /\ aeNum = 3
  /\ aeRet = 4

====
